---- MODULE Spec2Model ----
(***************************************************************************)
(* The V8 backport orchestration of lib/update-v8/backport.js: the squash *)
(* pre-flight check, the plan doBackport assembles, concurrent patch      *)
(* generation, patch application with its conflict prompt, the two        *)
(* version bumps and the three commit strategies.                         *)
(*                                                                         *)
(* JavaScript strings are sequences of one-character strings, so that     *)
(* slice, trim, toUpperCase and the regular-expression replaces are       *)
(* computed character by character.                                       *)
(***************************************************************************)
EXTENDS Integers, Sequences, FiniteSets, TLC

\* ------------------------------------------------------------- bounds
\* The longest list of requested commits (options.sha).
MaxShas == 4
\* How many rejected inputs one conflict prompt is followed through.
MaxRejects == 1

\* ------------------------------------------------------------ strings
Digit == {"0", "1", "2", "3", "4", "5", "6", "7", "8", "9"}

DigitChars == <<"0", "1", "2", "3", "4", "5", "6", "7", "8", "9">>

DigitValue(c) == CHOOSE d \in 0..9 : DigitChars[d + 1] = c

\* `${n}` for a non-negative integer n: its decimal digits.
RECURSIVE NumberToString(_)
NumberToString(n) ==
  IF n < 10 THEN <<DigitChars[n + 1]>>
  ELSE NumberToString(n \div 10) \o <<DigitChars[(n % 10) + 1]>>

\* parseInt(s, 10) for a string of decimal digits.
RECURSIVE parseInt(_)
parseInt(s) ==
  IF Len(s) = 0 THEN 0
  ELSE 10 * parseInt(SubSeq(s, 1, Len(s) - 1)) + DigitValue(s[Len(s)])

\* ------------------------------------------------------------- Numbers
\* A Number is an IEEE 754 double. Where a value may pass 2^53 it is kept
\* as the decimal digits of the integer the double is, without leading
\* zeros, which is also what `${n}` prints below 10^21.
RECURSIVE StripZeros(_)
StripZeros(d) ==
  IF Len(d) > 1 /\ d[1] = "0" THEN StripZeros(Tail(d)) ELSE d

DecimalLess(a, b) ==
  \/ Len(a) < Len(b)
  \/ /\ Len(a) = Len(b)
     /\ \E k \in 1..Len(a) :
          /\ DigitValue(a[k]) < DigitValue(b[k])
          /\ \A j \in 1..(k - 1) : a[j] = b[j]

RECURSIVE DecimalSucc(_)
DecimalSucc(d) ==
  IF Len(d) = 0 THEN <<"1">>
  ELSE IF d[Len(d)] = "9" THEN DecimalSucc(SubSeq(d, 1, Len(d) - 1)) \o <<"0">>
  ELSE SubSeq(d, 1, Len(d) - 1) \o <<DigitChars[DigitValue(d[Len(d)]) + 2]>>

RECURSIVE DecimalPred(_)
DecimalPred(d) ==
  IF d[Len(d)] = "0" THEN DecimalPred(SubSeq(d, 1, Len(d) - 1)) \o <<"9">>
  ELSE SubSeq(d, 1, Len(d) - 1) \o <<DigitChars[DigitValue(d[Len(d)])]>>

\* 2^53: up to it every integer is a double, from it to 2^54 every even one.
TwoTo53 == <<"9","0","0","7","1","9","9","2","5","4","7","4","0","9","9","2">>

\* The double nearest to the integer d < 2^54, ties to the even mantissa:
\* an odd integer above 2^53 becomes its neighbour that 4 divides.
RoundToDouble(d) ==
  IF ~DecimalLess(TwoTo53, d) THEN d
  ELSE IF DigitValue(d[Len(d)]) % 2 = 0 THEN d
  ELSE IF (10 * DigitValue(d[Len(d) - 1]) + DigitValue(d[Len(d)]) - 1) % 4 = 0
       THEN DecimalPred(d)
       ELSE DecimalSucc(d)

\* parseInt(s, 10) for a string of decimal digits, as the Number it is.
parseIntNumber(s) == RoundToDouble(StripZeros(s))

\* n + 1 for a Number n.
NumberPlusOne(n) == RoundToDouble(DecimalSucc(n))

IsPrefixAt(lit, s, i) ==
  /\ i + Len(lit) - 1 <= Len(s)
  /\ SubSeq(s, i, i + Len(lit) - 1) = lit

WhiteSpace == {" ", "\n", "\t", "\r"}

\* String.prototype.trim
RECURSIVE trim(_)
trim(s) ==
  IF Len(s) = 0 THEN s
  ELSE IF s[1] \in WhiteSpace THEN trim(Tail(s))
  ELSE IF s[Len(s)] \in WhiteSpace THEN trim(SubSeq(s, 1, Len(s) - 1))
  ELSE s

LowerCase == <<"a", "b", "c", "d", "e", "f", "g", "h", "i", "j", "k", "l", "m",
               "n", "o", "p", "q", "r", "s", "t", "u", "v", "w", "x", "y", "z">>

UpperCase == <<"A", "B", "C", "D", "E", "F", "G", "H", "I", "J", "K", "L", "M",
               "N", "O", "P", "Q", "R", "S", "T", "U", "V", "W", "X", "Y", "Z">>

UpperChar(c) ==
  IF \E k \in 1..26 : LowerCase[k] = c
  THEN UpperCase[CHOOSE k \in 1..26 : LowerCase[k] = c]
  ELSE c

\* String.prototype.toUpperCase
toUpperCase(s) == [k \in 1..Len(s) |-> UpperChar(s[k])]

\* sha.slice(0, 12) of lib/utils.js
shortSha(sha) == SubSeq(sha, 1, IF Len(sha) < 12 THEN Len(sha) ELSE 12)

\* ---------------------------------------------- regular expressions
\* Where the maximal run of digits that starts at i ends (i - 1: no digit).
RECURSIVE DigitsEnd(_, _)
DigitsEnd(s, i) ==
  IF i <= Len(s) /\ s[i] \in Digit THEN DigitsEnd(s, i + 1) ELSE i - 1

\* Whether /<lit>(\d+)<close>/ matches s at position i.
MatchesAt(s, i, lit, close) ==
  /\ IsPrefixAt(lit, s, i)
  /\ DigitsEnd(s, i + Len(lit)) >= i + Len(lit)
  /\ IsPrefixAt(close, s, DigitsEnd(s, i + Len(lit)) + 1)

\* RegExp.prototype.exec: the leftmost match, or null (matched = FALSE).
\* from..to is the whole match, group the capture (\d+).
RegexExec(s, lit, close) ==
  IF \E i \in 1..Len(s) : MatchesAt(s, i, lit, close)
  THEN LET i == CHOOSE j \in 1..Len(s) :
                  /\ MatchesAt(s, j, lit, close)
                  /\ \A k \in 1..(j - 1) : ~MatchesAt(s, k, lit, close)
           e == DigitsEnd(s, i + Len(lit))
       IN  [matched |-> TRUE, from |-> i, to |-> e + Len(close),
            group |-> SubSeq(s, i + Len(lit), e)]
  ELSE [matched |-> FALSE, from |-> 0, to |-> 0, group |-> <<>>]

\* String.prototype.replace(regexp, replacement) without the global flag:
\* the leftmost match is replaced, a string without a match is returned
\* as it is.
RegexReplace(s, lit, close, replacement) ==
  LET m == RegexExec(s, lit, close)
  IN  IF m.matched
      THEN SubSeq(s, 1, m.from - 1) \o replacement \o SubSeq(s, m.to + 1, Len(s))
      ELSE s

\* /V8_PATCH_LEVEL (\d+)/
PatchLevelLit == <<"V","8","_","P","A","T","C","H","_","L","E","V","E","L"," ">>

\* /'v8_embedder_string': '-node\.(\d+)'/
embedderLit == <<"'","v","8","_","e","m","b","e","d","d","e","r","_","s","t","r","i","n","g","'",":"," ","'","-","n","o","d","e",".">>

embedderClose == <<"'">>

embedderRegexExec(s) == RegexExec(s, embedderLit, embedderClose)

\* ------------------------------------------------- the upstream clone
\* The commits of the V8 clone the run may be asked for: the full SHA,
\* what format-patch prints for sha^..sha and what log --format=%B prints.
UpstreamCommits == <<
  [sha |-> <<"6","d","c","d","4","c","e","2","3","d","8","8","e","2","e","e","9","5","6","8","b","a","5","4","6","c","0","0","7","c","6","3","d","9","1","3","1","c","1","b">>,
   data |-> <<"@","@","A">>,
   message |-> <<"f","i","x"," ","a","\n","\n","B","u","g",":"," ","1","\n">>],
  [sha |-> <<"a","e","4","f","2","8","1","d","f","5","a","5","d","0","f","f","3","c","a","d","6","3","7","1","f","7","6","d","5","c","2","9","b","6","d","9","5","3","e","c">>,
   data |-> <<"@","@","B">>,
   message |-> <<"f","i","x"," ","b","\n">>],
  [sha |-> <<"3","2","0","9","6","c","2","e","0","e","f","f","3","3","d","8","4","4","e","e","6","d","6","7","5","4","0","7","a","c","e","1","8","2","8","9","3","5","7","d">>,
   data |-> <<"@","@","C">>,
   message |-> <<"c","\n","\n","d","\n","e","\n">>],
  [sha |-> <<"5","0","c","9","e","8","d","5","f","c","9","8","7","2","7","b","4","b","b","c","9","3","c","f","5","d","6","4","a","6","8","d","b","6","4","7","f","0","4","f">>,
   data |-> <<"@","@","D">>,
   message |-> <<"d">>],
  [sha |-> <<"e","0","1","8","4","a","d","e","d","f","9","1","3","b","0","7","6","6","2","6","6","4","6","d","3","f","5","2","c","3","b","4","9","c","3","9","a","d","6","d">>,
   data |-> <<"@","@","E">>,
   message |-> <<"e","\n","\n","\n">>] >>

\* The commit a reference names: references are abbreviated SHAs.
CommitOfRef(ref) ==
  CHOOSE k \in 1..Len(UpstreamCommits) : IsPrefixAt(ref, UpstreamCommits[k].sha, 1)

CommitOfSha(sha) ==
  CHOOSE k \in 1..Len(UpstreamCommits) : UpstreamCommits[k].sha = sha

\* stdout of `git rev-parse <ref>` in the V8 clone: the full SHA and a newline.
RevParseStdout(ref) == UpstreamCommits[CommitOfRef(ref)].sha \o <<"\n">>

\* stdout of `git format-patch --stdout <sha>^..<sha>`.
FormatPatchStdout(sha) == UpstreamCommits[CommitOfSha(sha)].data

\* stdout of `git log --format=%B -n 1 <sha>`.
LogStdout(sha) == UpstreamCommits[CommitOfSha(sha)].message

\* ------------------------------------------------------------- inputs
\* The order in which the commits are requested: not the clone's order.
RequestOrder == <<2, 1, 3, 5, 4>>

RequestedRef(i) ==
  SubSeq(UpstreamCommits[RequestOrder[((i - 1) % Len(RequestOrder)) + 1]].sha, 1, 7)

\* options.sha: one list of references for every length 1..MaxShas.
ShaLists == { [i \in 1..n |-> RequestedRef(i)] : n \in 1..MaxShas }

\* deps/v8/include/v8-version.h at patch level 9, and at patch level 12
\* with the words of the pattern in two comments.
VersionHLevel9 ==
  <<"#","d","e","f","i","n","e"," ","V","8","_","B","U","I","L","D","_","N","U","M","B","E","R"," ","4","\n","#","d","e","f","i","n","e"," ","V","8","_","P","A","T","C","H","_","L","E","V","E","L"," ","9","\n","#","d","e","f","i","n","e"," ","V","8","_","E","M","B","E","D","D","E","R","_","S","T","R","I","N","G"," ","\"","-","n","o","d","e",".","0","\"","\n">>

VersionHLevel12 ==
  <<"/","/"," ","V","8","_","P","A","T","C","H","_","L","E","V","E","L"," ","i","s"," ","b","u","m","p","e","d"," ","p","e","r"," ","b","a","c","k","p","o","r","t","\n","#","d","e","f","i","n","e"," ","V","8","_","P","A","T","C","H","_","L","E","V","E","L"," ","1","2","\n","/","/"," ","w","a","s"," ","V","8","_","P","A","T","C","H","_","L","E","V","E","L"," ","3","\n">>

\* common.gypi with the embedder string -node.5, with -node.19 among
\* lines that look like it, and with an embedder string the pattern
\* does not match.
CommonGypiNode5 ==
  <<"{"," ","'","v","a","r","i","a","b","l","e","s","'",":"," ","{","\n"," "," "," "," ","'","v","8","_","e","m","b","e","d","d","e","r","_","s","t","r","i","n","g","'",":"," ","'","-","n","o","d","e",".","5","'",",","\n"," "," ","}",",","\n","}","\n">>

CommonGypiNode19 ==
  <<"#"," ","'","v","8","_","e","m","b","e","d","d","e","r","_","s","t","r","i","n","g","'",":"," ","'","-","n","o","d","e",".","x","'","\n","'","v","8","_","e","m","b","e","d","d","e","r","_","s","t","r","i","n","g","'",":"," ","'","-","n","o","d","e",".","1","9","'",",","\n","'","v","8","_","e","n","a","b","l","e","_","i","1","8","n","'",":"," ","'","-","n","o","d","e",".","7","'",",","\n">>

CommonGypiNoMatch ==
  <<"{"," ","'","v","a","r","i","a","b","l","e","s","'",":"," ","{","\n"," "," "," "," ","'","v","8","_","e","m","b","e","d","d","e","r","_","s","t","r","i","n","g","'",":"," ","\"","-","n","o","d","e",".","5","\"",",","\n"," "," ","}",",","\n","}","\n">>

\* The two files as the run finds them.
NodeTrees == { <<VersionHLevel9, CommonGypiNode5>>,
               <<VersionHLevel12, CommonGypiNode19>>,
               <<VersionHLevel12, CommonGypiNoMatch>> }

\* -------------------------------------------------------------- state
VARIABLES
  options,         \* BackportOptions, which is also the run context ctx
  wantSquash,      \* the pre-flight answer: "unasked", "yes" or "no"
  pc,              \* where the run is: "checkOptions", "confirm", "running",
                   \* "generating", "prompt", "done", "failed", "aborted"
  todo,            \* the tasks the runner has still to run, first first
  gen,             \* generatePatches: the Promise.all arrays and what is pending
  patches,         \* ctx.patches (<<>>: not assigned)
  prompt,          \* the conflict prompt being shown: its patch, rejected inputs
  currentVersion,  \* ctx.currentVersion
  versionH,        \* deps/v8/include/v8-version.h on disk
  commonGypi,      \* common.gypi on disk
  issued,          \* every command, file operation and prompt issued, in order
  history,         \* the commits the run has added to the node repository
  failedAt         \* what made the run fail ("": nothing)

vars == <<options, wantSquash, pc, todo, gen, patches, prompt, currentVersion,
          versionH, commonGypi, issued, history, failedAt>>

NumShas == Len(options.sha)

\* One entry of issued. repo: "v8" (execGitV8), "node" (execGitNode),
\* "config" (git config), "fs" or "prompt"; args: the arguments before any
\* -m; text: the reference or SHA of an upstream query; patch: the patch it
\* is for (0: none); rc: "ok" or "fail", for the upstream queries, which
\* run concurrently, "issued", for a prompt "pending" until an input is
\* accepted; title and body: the two -m arguments of a commit.
Command(repo, cmd, args, text, patch, rc, title, body) ==
  [repo |-> repo, cmd |-> cmd, args |-> args, text |-> text, patch |-> patch,
   rc |-> rc, title |-> title, body |-> body]

Task(t, i, m) == [t |-> t, i |-> i, m |-> m]

\* generatePatches is not running. While it runs: which rev-parse have
\* not ended, the array of the first Promise.all, which format-patch (1)
\* and log (2) have not ended, the arrays of the inner and of the outer
\* Promise.all. Once it has rejected, records keeps the records that had
\* settled by then.
NoGen == [stage |-> "idle", revPending |-> {}, fullShas |-> <<>>,
          fetchPending |-> {}, fetched |-> <<>>, records |-> <<>>]

\* No prompt is shown. A prompt that is shown has the patch it is for, the
\* inputs it has rejected, and the input typed and not yet validated.
NoPrompt == [patch |-> 0, rejected |-> 0, typed |-> FALSE, value |-> <<>>]

\* An optional argument: undefined, or the value given.
Undefined == [defined |-> FALSE, value |-> <<>>]

Defined(v) == [defined |-> TRUE, value |-> v]

\* ctx.gpgSign, which the caller sets to the signing arguments: none when
\* signing is not asked for.
gpgSign == options.gpgSign

\* The options of a run without signing. With bump false the major
\* version is not read.
OptionSets ==
  { o \in [sha : ShaLists, squash : BOOLEAN, preserveOriginalAuthor : BOOLEAN,
           bump : BOOLEAN, nodeMajorVersion : {8, 9}, gpgSign : {<<>>}] :
      o.bump \/ o.nodeMajorVersion = 9 }

Init ==
  /\ options \in OptionSets
  /\ wantSquash = "unasked"
  /\ pc = "checkOptions"
  /\ todo = <<>>
  /\ gen = NoGen
  /\ patches = <<>>
  /\ prompt = NoPrompt
  /\ currentVersion = [set |-> FALSE, patch |-> 0]
  /\ \E f \in NodeTrees : versionH = f[1] /\ commonGypi = f[2]
  /\ issued = <<>>
  /\ history = <<>>
  /\ failedAt = ""

\* ---------------------------------------------------------- planning
checkOptionsNeverStops(sha, squash, answer) == FALSE

\* checkOptions: true (stop) when the operator declines to squash several
\* commits, undefined (FALSE here) otherwise.
checkOptions(sha, squash, answer) ==
  IF Len(sha) > 1 /\ squash THEN answer = "no" ELSE FALSE

BumpTasksMajorSwapped(o) ==
  IF o.bump # FALSE
  THEN IF o.nodeMajorVersion < 9
       THEN <<Task("incrementEmbedderVersion", 0, "")>>
       ELSE <<Task("incrementV8Version", 0, "")>>
  ELSE <<>>

\* The bump task that the major version selects, if bump is not false.
BumpTasks(o) ==
  IF o.bump # FALSE
  THEN IF o.nodeMajorVersion < 9
       THEN <<Task("incrementV8Version", 0, "")>>
       ELSE <<Task("incrementEmbedderVersion", 0, "")>>
  ELSE <<>>

doBackportPreserveFirst(o) ==
  <<Task("getCurrentV8Version", 0, ""), Task("generatePatches", 0, "")>> \o
  IF o.preserveOriginalAuthor
  THEN <<Task("cherryPickV8Commits", 0, "")>>
  ELSE IF o.squash
       THEN <<Task("applyPatches", 1, "apply")>> \o BumpTasks(o) \o
            <<Task("commitSquashedBackport", 0, "")>>
       ELSE <<Task("applyAndCommitPatches", 0, "")>>

\* doBackport: the list of tasks of the run.
doBackport(o) ==
  <<Task("getCurrentV8Version", 0, ""), Task("generatePatches", 0, "")>> \o
  IF o.squash
  THEN <<Task("applyPatches", 1, "apply")>> \o BumpTasks(o) \o
       <<Task("commitSquashedBackport", 0, "")>>
  ELSE IF o.preserveOriginalAuthor
       THEN <<Task("cherryPickV8Commits", 0, "")>>
       ELSE <<Task("applyAndCommitPatches", 0, "")>>

\* The caller of checkOptions and doBackport: it stops when checkOptions
\* says so and otherwise runs the tasks of doBackport in order.
StartRun(shouldStop) ==
  IF shouldStop
  THEN /\ pc' = "aborted"
       /\ todo' = <<>>
  ELSE /\ pc' = "running"
       /\ todo' = doBackport(options)

\* checkOptions when it asks nothing.
CheckOptions ==
  /\ pc = "checkOptions"
  /\ ~(Len(options.sha) > 1 /\ options.squash)
  /\ StartRun(checkOptions(options.sha, options.squash, wantSquash))
  /\ UNCHANGED <<options, wantSquash, gen, patches, prompt, currentVersion,
                 versionH, commonGypi, issued, history, failedAt>>

\* checkOptions when it asks for the confirmation.
CheckOptionsAsk ==
  /\ pc = "checkOptions"
  /\ Len(options.sha) > 1 /\ options.squash
  /\ pc' = "confirm"
  /\ UNCHANGED <<options, wantSquash, todo, gen, patches, prompt,
                 currentVersion, versionH, commonGypi, issued, history, failedAt>>

\* The operator answers the confirmation.
Confirm ==
  /\ pc = "confirm"
  /\ \E answer \in {"yes", "no"} :
       /\ wantSquash' = answer
       /\ StartRun(checkOptions(options.sha, options.squash, answer))
  /\ UNCHANGED <<options, gen, patches, prompt, currentVersion,
                 versionH, commonGypi, issued, history, failedAt>>

\* ------------------------------------------------------- task runner
Running(t) == pc = "running" /\ todo # <<>> /\ Head(todo).t = t

FailIsSkipped(what) ==
  /\ pc' = pc
  /\ failedAt' = what

\* A task threw: the runner stops the run.
Fail(what) ==
  /\ pc' = "failed"
  /\ failedAt' = what

\* The last task has ended.
Finish ==
  /\ pc = "running"
  /\ todo = <<>>
  /\ pc' = "done"
  /\ UNCHANGED <<options, wantSquash, todo, gen, patches, prompt,
                 currentVersion, versionH, commonGypi, issued, history, failedAt>>

VersionHPath == "deps/v8/include/v8-version.h"

FsCommand(cmd, path, rc) == Command("fs", cmd, <<path>>, <<>>, 0, rc, <<>>, <<>>)

\* getCurrentV8Version of lib/update-v8/common.js: the version is read from
\* v8-version.h once, at the start of the run.
GetCurrentV8Version ==
  /\ Running("getCurrentV8Version")
  /\ LET m == RegexExec(versionH, PatchLevelLit, <<>>)
     IN  \E ok \in BOOLEAN :
           IF ok /\ m.matched
           THEN /\ currentVersion' = [set |-> TRUE, patch |-> parseInt(m.group)]
                /\ issued' = Append(issued, FsCommand("readFile", VersionHPath, "ok"))
                /\ todo' = Tail(todo)
                /\ UNCHANGED <<pc, failedAt>>
           ELSE /\ issued' = Append(issued, FsCommand("readFile", VersionHPath,
                                                      IF ok THEN "ok" ELSE "fail"))
                /\ Fail("getCurrentV8Version")
                /\ UNCHANGED <<currentVersion, todo>>
  /\ UNCHANGED <<options, wantSquash, gen, patches, prompt, versionH,
                 commonGypi, history>>

\* -------------------------------------------------- generatePatches
SettleInCompletionOrder(results, pending, i, v) ==
  [results EXCEPT ![Len(results) - Cardinality(pending) + 1] = v]

\* Promise.all: the result of the promise at position i settles into
\* slot i of the array, whatever the order of completion. pending: the
\* positions not yet settled.
Settle(results, pending, i, v) == [results EXCEPT ![i] = v]

\* The PatchRecord the inner async function returns. hadConflicts is not
\* set at generation: it reads as false until applyPatch sets it.
PatchRecord(sha, pair) ==
  [sha |-> sha, data |-> pair[1], message |-> pair[2], hadConflicts |-> FALSE]

PatchesPartialAfterReject(old, partial) == partial

\* What ctx.patches is after generation rejected: the assignment follows
\* the await, which threw, so ctx.patches is as it was.
PatchesAfterReject(old, partial) == old

\* The task starts: shas.map issues one rev-parse per requested reference.
GeneratePatches ==
  /\ Running("generatePatches")
  /\ pc' = "generating"
  /\ gen' = [stage |-> "rev-parse",
             revPending |-> 1..NumShas,
             fullShas |-> [i \in 1..NumShas |-> <<>>],
             fetchPending |-> {},
             fetched |-> [i \in 1..NumShas |-> << <<>>, <<>> >>],
             records |-> [i \in 1..NumShas |-> PatchRecord(<<>>, << <<>>, <<>> >>)]]
  /\ issued' = issued \o
       [i \in 1..NumShas |->
          Command("v8", "rev-parse", <<>>, options.sha[i], i, "issued", <<>>, <<>>)]
  /\ UNCHANGED <<options, wantSquash, todo, patches, prompt, currentVersion,
                 versionH, commonGypi, history, failedAt>>

\* The two queries fullShas.map issues for the SHA at position i.
FetchCommands(shas, i) ==
  << Command("v8", "format-patch", <<"--stdout">>, shas[i], i, "issued", <<>>, <<>>),
     Command("v8", "log", <<"--format=%B", "-n", "1">>, shas[i], i, "issued", <<>>, <<>>) >>

RECURSIVE AllFetchCommands(_, _)
AllFetchCommands(shas, i) ==
  IF i > Len(shas) THEN <<>>
  ELSE FetchCommands(shas, i) \o AllFetchCommands(shas, i + 1)

\* One rev-parse ends. When the last one has, the first Promise.all
\* resolves and format-patch and log are issued for every full SHA.
RevParseSettled ==
  /\ pc = "generating"
  /\ gen.stage = "rev-parse"
  /\ \E i \in gen.revPending, ok \in BOOLEAN :
       IF ok
       THEN LET shas == Settle(gen.fullShas, gen.revPending, i,
                               trim(RevParseStdout(options.sha[i])))
                left == gen.revPending \ {i}
            IN  /\ gen' = [gen EXCEPT
                     !.fullShas = shas,
                     !.revPending = left,
                     !.stage = IF left = {} THEN "fetch" ELSE "rev-parse",
                     !.fetchPending = IF left = {} THEN (1..NumShas) \X {1, 2} ELSE {}]
                /\ issued' = IF left = {} THEN issued \o AllFetchCommands(shas, 1)
                              ELSE issued
                /\ UNCHANGED <<pc, patches, failedAt>>
       ELSE /\ patches' = PatchesAfterReject(patches, <<>>)
            /\ Fail("rev-parse")
            /\ gen' = [NoGen EXCEPT !.stage = "rejected"]
            /\ UNCHANGED issued
  /\ UNCHANGED <<options, wantSquash, todo, prompt, currentVersion,
                 versionH, commonGypi, history>>

FetchName(k) == IF k = 1 THEN "format-patch" ELSE "log"

FetchStdout(k, sha) == IF k = 1 THEN FormatPatchStdout(sha) ELSE LogStdout(sha)

\* The records of the positions whose two queries have both ended.
SettledRecords(records, pending) ==
  LET done == { i \in 1..Len(records) : \A k \in {1, 2} : <<i, k>> \notin pending }
  IN  [j \in 1..Cardinality(done) |->
         records[CHOOSE i \in done : Cardinality({d \in done : d < i}) = j - 1]]

\* One format-patch or log ends. When both of a SHA have, its record
\* settles; when every record has, ctx.patches is assigned and the task ends.
FetchSettled ==
  /\ pc = "generating"
  /\ gen.stage = "fetch"
  /\ \E q \in gen.fetchPending, ok \in BOOLEAN :
       LET i == q[1]
           k == q[2]
           mine == { j \in {1, 2} : <<i, j>> \in gen.fetchPending }
           pair == Settle(gen.fetched[i], mine, k, FetchStdout(k, gen.fullShas[i]))
           left == gen.fetchPending \ {q}
           open == { j \in 1..NumShas : \E x \in {1, 2} : <<j, x>> \in gen.fetchPending }
           records == IF mine = {k}
                      THEN Settle(gen.records, open, i, PatchRecord(gen.fullShas[i], pair))
                      ELSE gen.records
       IN  IF ok
           THEN /\ IF left = {}
                   THEN /\ gen' = NoGen
                        /\ patches' = records
                        /\ todo' = Tail(todo)
                        /\ pc' = "running"
                   ELSE /\ gen' = [gen EXCEPT
                             !.fetched = [gen.fetched EXCEPT ![i] = pair],
                             !.records = records,
                             !.fetchPending = left]
                        /\ UNCHANGED <<patches, todo, pc>>
                /\ UNCHANGED failedAt
           ELSE /\ patches' = PatchesAfterReject(patches,
                                 SettledRecords(gen.records, gen.fetchPending))
                /\ Fail(FetchName(k))
                /\ gen' = [NoGen EXCEPT
                     !.stage = "rejected",
                     !.records = SettledRecords(gen.records, gen.fetchPending)]
                /\ UNCHANGED todo
  /\ UNCHANGED <<options, wantSquash, prompt, currentVersion,
                 versionH, commonGypi, issued, history>>

\* ------------------------------------------------- commit messages
DepsV8 == <<"d","e","p","s",":"," ","V","8",":"," ">>

BackportWord == <<"b","a","c","k","p","o","r","t">>

CherryPickWord == <<"c","h","e","r","r","y","-","p","i","c","k">>

AndWord == <<" ","a","n","d"," ">>

CommaWord == <<","," ">>

CommitsWord == <<" ","c","o","m","m","i","t","s">>

EveryHadConflicts(ps) == \A k \in 1..Len(ps) : ps[k].hadConflicts

\* patches.some(patch => patch.hadConflicts)
SomeHadConflicts(ps) == \E k \in 1..Len(ps) : ps[k].hadConflicts

formatMessageTitleCountFromThree(ps) ==
  LET action == IF SomeHadConflicts(ps) THEN BackportWord ELSE CherryPickWord
      head == DepsV8 \o action \o <<" ">>
  IN  IF Len(ps) = 1 THEN head \o shortSha(ps[1].sha)
      ELSE IF Len(ps) = 2
           THEN head \o shortSha(ps[1].sha) \o AndWord \o shortSha(ps[2].sha)
      ELSE head \o NumberToString(Len(ps)) \o CommitsWord

formatMessageTitle(ps) ==
  LET action == IF SomeHadConflicts(ps) THEN BackportWord ELSE CherryPickWord
      head == DepsV8 \o action \o <<" ">>
  IN  IF Len(ps) = 1 THEN head \o shortSha(ps[1].sha)
      ELSE IF Len(ps) = 2
           THEN head \o shortSha(ps[1].sha) \o AndWord \o shortSha(ps[2].sha)
      ELSE IF Len(ps) = 3
           THEN head \o shortSha(ps[1].sha) \o CommaWord \o shortSha(ps[2].sha)
                     \o AndWord \o shortSha(ps[3].sha)
      ELSE head \o NumberToString(Len(ps)) \o CommitsWord

RECURSIVE IndentFirstNewline(_)
IndentFirstNewline(s) ==
  IF Len(s) = 0 THEN <<>>
  ELSE IF s[1] = "\n" THEN <<"\n"," "," "," "," ">> \o Tail(s)
  ELSE <<s[1]>> \o IndentFirstNewline(Tail(s))

\* message.replace(/\n/g, '\n    ')
RECURSIVE IndentNewlines(_)
IndentNewlines(s) ==
  IF Len(s) = 0 THEN <<>>
  ELSE (IF s[1] = "\n" THEN <<"\n"," "," "," "," ">> ELSE <<s[1]>>)
       \o IndentNewlines(Tail(s))

OriginalHeader == <<"O","r","i","g","i","n","a","l"," ","c","o","m","m","i","t"," ","m","e","s","s","a","g","e",":","\n","\n">>

RefsPrefix == <<"R","e","f","s",":"," ","h","t","t","p","s",":","/","/","g","i","t","h","u","b",".","c","o","m","/","v","8","/","v","8","/","c","o","m","m","i","t","/">>

\* trailers is optional: its default is the empty string.
formatMessageBody(patch, prefixTitle, trailers) ==
  LET body == OriginalHeader \o
              <<" "," "," "," ">> \o IndentNewlines(patch.message) \o <<"\n","\n">> \o
              RefsPrefix \o patch.sha \o
              (IF trailers.defined THEN trailers.value ELSE <<>>)
      action == IF patch.hadConflicts
                THEN <<"B","a","c","k","p","o","r","t">>
                ELSE <<"C","h","e","r","r","y","-","p","i","c","k">>
  IN  IF prefixTitle
      THEN action \o <<" ">> \o shortSha(patch.sha) \o <<".","\n">> \o body
      ELSE body

\* The body commitSquashedBackport builds.
RECURSIVE SquashedBodies(_, _)
SquashedBodies(ps, k) ==
  IF k > Len(ps) THEN <<>>
  ELSE formatMessageBody(ps[k], TRUE, Undefined) \o <<"\n","\n">>
       \o SquashedBodies(ps, k + 1)

SquashedMessageBody(ps) ==
  IF Len(ps) = 1 THEN formatMessageBody(ps[1], FALSE, Undefined)
  ELSE SquashedBodies(ps, 1)

\* --------------------------------------------- the node repository
\* stdout of `git config user.name` and `git config user.email`.
UserNameStdout == <<"J","a","n","e"," ","D","o","e","\n">>

UserEmailStdout == <<"j","a","n","e","@","e","x","a","m","p","l","e",".","o","r","g","\n">>

Commit(how, title, body, author) ==
  [how |-> how, title |-> title, body |-> body, author |-> author]

HasArg(args, a) == \E k \in 1..Len(args) : args[k] = a

\* What a successful `git commit <args> -m title -m body` does to the
\* commits the run has added: --amend replaces HEAD and keeps its author,
\* otherwise a commit by the operator is added.
GitCommit(hist, args, title, body) ==
  IF HasArg(args, "--amend")
  THEN IF hist = <<>> THEN hist
       ELSE [hist EXCEPT ![Len(hist)] = Commit("amend", title, body, hist[Len(hist)].author)]
  ELSE Append(hist, Commit("commit", title, body, "operator"))

\* What a successful `git am` or `git am --continue` does: the patch
\* becomes a commit with the original author and message.
GitAm(hist, how, patch) ==
  Append(hist, Commit(how, <<>>, patch.message, "original"))

NodeCommand(cmd, args, i, rc) == Command("node", cmd, args, <<>>, i, rc, <<>>, <<>>)

\* --------------------------------------------------------- applyPatch
ApplyArgs == <<"-p1", "--3way", "--directory=deps/v8">>

Resolved == <<"R","E","S","O","L","V","E","D">>

validateExact(value) == value = Resolved

\* validate: value => value.toUpperCase() === 'RESOLVED'
validate(value) == toUpperCase(value) = Resolved

\* What the operator may type at the prompt.
PromptInputs == {
  <<"R","E","S","O","L","V","E","D">>,
  <<"r","e","s","o","l","v","e","d">>,
  <<"R","e","s","o","l","v","e","D">>,
  <<"R","E","S","O","L","V","E">>,
  <<"R","E","S","O","L","V","E","D"," ">>,
  <<>> }

PcWithoutReturn == "running"

\* Where the run is after a failed apply: applyPatch returns the prompt's
\* promise, so its task does not end before the prompt has.
PcAfterConflict == "prompt"

\* applyPatch(ctx, task, patch, method) for patch i, the tasks in rest
\* being those that follow it. ok: whether git exits with 0.
applyPatch(i, method, ok, rest) ==
  /\ todo' = rest
  /\ IF ok
     THEN /\ issued' = Append(issued, NodeCommand(method, ApplyArgs, i, "ok"))
          /\ history' = IF method = "am" THEN GitAm(history, "am", patches[i])
                        ELSE history
          /\ UNCHANGED <<patches, prompt, pc>>
     ELSE /\ issued' = issued \o
                << NodeCommand(method, ApplyArgs, i, "fail"),
                   Command("prompt", "input", <<>>, <<>>, i, "pending", <<>>, <<>>) >>
          /\ patches' = [patches EXCEPT ![i].hadConflicts = TRUE]
          /\ prompt' = [NoPrompt EXCEPT !.patch = i]
          /\ pc' = PcAfterConflict
          /\ UNCHANGED history
  /\ UNCHANGED <<options, wantSquash, gen, currentVersion, versionH,
                 commonGypi, failedAt>>

\* applyPatches (squash): one turn of the loop over ctx.patches.
ApplyPatches ==
  /\ Running("applyPatches")
  /\ LET i == Head(todo).i
     IN  \E ok \in BOOLEAN :
           applyPatch(i, "apply", ok,
                      IF i < Len(patches)
                      THEN <<Task("applyPatches", i + 1, "apply")>> \o Tail(todo)
                      ELSE Tail(todo))

\* The task 'Apply patch' of applyPatchTask, 'Cherry-pick' of
\* cherryPickV8CommitTask.
ApplyPatchStep ==
  /\ Running("applyPatch")
  /\ \E ok \in BOOLEAN :
       applyPatch(Head(todo).i, Head(todo).m, ok, Tail(todo))

\* The operator types something at the conflict prompt and submits it.
PromptInput ==
  /\ pc = "prompt"
  /\ ~prompt.typed
  /\ \E value \in PromptInputs :
       /\ validate(value) \/ prompt.rejected < MaxRejects
       /\ prompt' = [prompt EXCEPT !.typed = TRUE, !.value = value]
  /\ UNCHANGED <<options, wantSquash, pc, todo, gen, patches, currentVersion,
                 versionH, commonGypi, issued, history, failedAt>>

\* The prompt validates the input: an accepted input ends the prompt and
\* the task, a rejected one is asked for again.
PromptValidate ==
  /\ pc = "prompt"
  /\ prompt.typed
  /\ IF validate(prompt.value)
     THEN /\ pc' = "running"
          /\ prompt' = NoPrompt
          /\ issued' = [k \in 1..Len(issued) |->
                          IF issued[k].repo = "prompt" /\ issued[k].rc = "pending"
                          THEN [issued[k] EXCEPT !.rc = "ok"]
                          ELSE issued[k]]
     ELSE /\ prompt' = [prompt EXCEPT !.typed = FALSE, !.value = <<>>,
                                      !.rejected = @ + 1]
          /\ UNCHANGED <<pc, issued>>
  /\ UNCHANGED <<options, wantSquash, todo, gen, patches, currentVersion,
                 versionH, commonGypi, history, failedAt>>

\* ------------------------------------------------- the per-patch plans
applyPatchTask(i) ==
  <<Task("applyPatch", i, "apply")>> \o BumpTasks(options) \o
  <<Task("commitPatch", i, "")>>

cherryPickV8CommitTaskAmendFirst(i) ==
  <<Task("applyPatch", i, "am"), Task("amendHEAD", i, "")>> \o BumpTasks(options)

cherryPickV8CommitTask(i) ==
  <<Task("applyPatch", i, "am")>> \o BumpTasks(options) \o
  <<Task("amendHEAD", i, "")>>

Expand(sub) ==
  /\ todo' = sub \o Tail(todo)
  /\ UNCHANGED <<options, wantSquash, pc, gen, patches, prompt, currentVersion,
                 versionH, commonGypi, issued, history, failedAt>>

ApplyAndCommitPatches ==
  /\ Running("applyAndCommitPatches")
  /\ Expand([i \in 1..Len(patches) |-> Task("applyPatchTask", i, "")])

CherryPickV8Commits ==
  /\ Running("cherryPickV8Commits")
  /\ Expand([i \in 1..Len(patches) |-> Task("cherryPickV8CommitTask", i, "")])

ApplyPatchTask ==
  /\ Running("applyPatchTask")
  /\ Expand(applyPatchTask(Head(todo).i))

CherryPickV8CommitTask ==
  /\ Running("cherryPickV8CommitTask")
  /\ Expand(cherryPickV8CommitTask(Head(todo).i))

\* ------------------------------------------------------ version bumps
BumpedVersionHPostIncrement(text, incremented) ==
  RegexReplace(text, PatchLevelLit, <<>>, PatchLevelLit \o NumberToString(incremented - 1))

\* The text of v8-version.h that incrementV8Version writes back.
BumpedVersionH(text, incremented) ==
  RegexReplace(text, PatchLevelLit, <<>>, PatchLevelLit \o NumberToString(incremented))

IncrementV8Version ==
  /\ Running("incrementV8Version")
  /\ LET incremented == currentVersion.patch + 1
     IN  /\ currentVersion' = [currentVersion EXCEPT !.patch = incremented]
         /\ \E outcome \in {"ok", "readFile", "writeFile"} :
              IF outcome = "readFile"
              THEN /\ issued' = Append(issued, FsCommand("readFile", VersionHPath, "fail"))
                   /\ Fail("readFile")
                   /\ UNCHANGED <<versionH, todo>>
              ELSE IF outcome = "writeFile"
              THEN /\ issued' = issued \o << FsCommand("readFile", VersionHPath, "ok"),
                                            FsCommand("writeFile", VersionHPath, "fail") >>
                   /\ Fail("writeFile")
                   /\ UNCHANGED <<versionH, todo>>
              ELSE /\ issued' = issued \o << FsCommand("readFile", VersionHPath, "ok"),
                                            FsCommand("writeFile", VersionHPath, "ok") >>
                   /\ versionH' = BumpedVersionH(versionH, incremented)
                   /\ todo' = Tail(todo)
                   /\ UNCHANGED <<pc, failedAt>>
  /\ UNCHANGED <<options, wantSquash, gen, patches, prompt, commonGypi, history>>

CommonGypiPath == "common.gypi"

BumpedCommonGypiSameValue(text) ==
  LET embedderValue == parseIntNumber(embedderRegexExec(text).group)
  IN  RegexReplace(text, embedderLit, embedderClose,
                   embedderLit \o embedderValue \o embedderClose)

\* The text of common.gypi that incrementEmbedderVersion writes back.
BumpedCommonGypi(text) ==
  LET embedderValue == parseIntNumber(embedderRegexExec(text).group)
  IN  RegexReplace(text, embedderLit, embedderClose,
                   embedderLit \o NumberPlusOne(embedderValue) \o embedderClose)

IncrementEmbedderVersion ==
  /\ Running("incrementEmbedderVersion")
  /\ \E outcome \in {"ok", "readFile", "writeFile", "add"} :
       IF outcome = "readFile"
       THEN /\ issued' = Append(issued, FsCommand("readFile", CommonGypiPath, "fail"))
            /\ Fail("readFile")
            /\ UNCHANGED <<commonGypi, todo>>
       ELSE IF ~embedderRegexExec(commonGypi).matched
       THEN \* embedderRegex.exec(commonGypi) is null: [1] throws.
            /\ issued' = Append(issued, FsCommand("readFile", CommonGypiPath, "ok"))
            /\ Fail("TypeError: embedderRegex.exec")
            /\ UNCHANGED <<commonGypi, todo>>
       ELSE IF outcome = "writeFile"
       THEN /\ issued' = issued \o << FsCommand("readFile", CommonGypiPath, "ok"),
                                     FsCommand("writeFile", CommonGypiPath, "fail") >>
            /\ Fail("writeFile")
            /\ UNCHANGED <<commonGypi, todo>>
       ELSE /\ issued' = issued \o
                 << FsCommand("readFile", CommonGypiPath, "ok"),
                    FsCommand("writeFile", CommonGypiPath, "ok"),
                    NodeCommand("add", <<CommonGypiPath>>, 0,
                                IF outcome = "add" THEN "fail" ELSE "ok") >>
            /\ commonGypi' = BumpedCommonGypi(commonGypi)
            /\ IF outcome = "add"
               THEN Fail("add") /\ UNCHANGED todo
               ELSE todo' = Tail(todo) /\ UNCHANGED <<pc, failedAt>>
  /\ UNCHANGED <<options, wantSquash, gen, patches, prompt, currentVersion,
                 versionH, history>>

\* ------------------------------------------------------------ commits
AddedPathSrc == "deps/v8/src"

\* What the commit steps stage: ctx.execGitNode('add', ['deps/v8']).
AddedPath == "deps/v8"

CommitCommand(args, i, rc, title, body) ==
  Command("node", "commit", args, <<>>, i, rc, title, body)

\* The arguments commitSquashedBackport gives `git commit` before the -m.
SquashCommitArgs == <<>>

CommitSquashedBackport ==
  /\ Running("commitSquashedBackport")
  /\ LET messageTitle == formatMessageTitle(patches)
         messageBody == SquashedMessageBody(patches)
     IN  \E outcome \in {"ok", "add", "commit"} :
           IF outcome = "add"
           THEN /\ issued' = Append(issued, NodeCommand("add", <<AddedPath>>, 0, "fail"))
                /\ Fail("add")
                /\ UNCHANGED <<history, todo>>
           ELSE IF outcome = "commit"
           THEN /\ issued' = issued \o
                     << NodeCommand("add", <<AddedPath>>, 0, "ok"),
                        CommitCommand(SquashCommitArgs, 0, "fail", messageTitle, messageBody) >>
                /\ Fail("commit")
                /\ UNCHANGED <<history, todo>>
           ELSE /\ issued' = issued \o
                     << NodeCommand("add", <<AddedPath>>, 0, "ok"),
                        CommitCommand(SquashCommitArgs, 0, "ok", messageTitle, messageBody) >>
                /\ history' = GitCommit(history, SquashCommitArgs, messageTitle, messageBody)
                /\ todo' = Tail(todo)
                /\ UNCHANGED <<pc, failedAt>>
  /\ UNCHANGED <<options, wantSquash, gen, patches, prompt, currentVersion,
                 versionH, commonGypi>>

\* commitTask(patch, extraArgs, trailers)(ctx) for patch i, after the
\* commands in log. `git add` runs first; then the argument list of
\* `git commit` is built by spreading ctx.gpgSign and extraArgs, which
\* throws a TypeError when extraArgs is undefined.
commitTask(i, extraArgs, trailers, outcome, log, hist) ==
  LET messageTitle == formatMessageTitle(<<patches[i]>>)
      messageBody == formatMessageBody(patches[i], FALSE, trailers)
      args == gpgSign \o extraArgs.value
  IN  IF outcome = "add"
      THEN /\ issued' = Append(log, NodeCommand("add", <<AddedPath>>, i, "fail"))
           /\ history' = hist
           /\ Fail("add")
           /\ UNCHANGED todo
      ELSE IF ~extraArgs.defined
      THEN /\ issued' = Append(log, NodeCommand("add", <<AddedPath>>, i, "ok"))
           /\ history' = hist
           /\ Fail("TypeError: extraArgs is not iterable")
           /\ UNCHANGED todo
      ELSE IF outcome = "commit"
      THEN /\ issued' = log \o
                << NodeCommand("add", <<AddedPath>>, i, "ok"),
                   CommitCommand(args, i, "fail", messageTitle, messageBody) >>
           /\ history' = hist
           /\ Fail("commit")
           /\ UNCHANGED todo
      ELSE /\ issued' = log \o
                << NodeCommand("add", <<AddedPath>>, i, "ok"),
                   CommitCommand(args, i, "ok", messageTitle, messageBody) >>
           /\ history' = GitCommit(hist, args, messageTitle, messageBody)
           /\ todo' = Tail(todo)
           /\ UNCHANGED <<pc, failedAt>>

\* commitPatch: commitTask(patch), with neither extraArgs nor trailers.
CommitPatchExtraArgs == Undefined

CommitPatch ==
  /\ Running("commitPatch")
  /\ \E outcome \in {"ok", "add", "commit"} :
       commitTask(Head(todo).i, CommitPatchExtraArgs, Undefined, outcome, issued, history)
  /\ UNCHANGED <<options, wantSquash, gen, patches, prompt, currentVersion,
                 versionH, commonGypi>>

\* The extraArgs amendHEAD gives commitTask.
AmendExtraArgs == Defined(<<"--amend">>)

CoAuthoredBy == <<"\n","C","o","-","a","u","t","h","o","r","e","d","-","b","y",":"," ">>

\* `\nCo-authored-by: ${user.name} <${user.email}>`
coAuthor == CoAuthoredBy \o trim(UserNameStdout) \o <<" ","<">> \o
            trim(UserEmailStdout) \o <<">">>

AmendAlwaysContinues(patch) == TRUE

\* Whether amendHEAD continues the mailbox-apply and adds the trailer.
AmendContinues(patch) == patch.hadConflicts

AmendHEAD ==
  /\ Running("amendHEAD")
  /\ LET i == Head(todo).i
         amContinue(rc) == NodeCommand("am", gpgSign \o <<"--continue">>, i, rc)
         config(key, rc) == Command("config", "config", <<key>>, <<>>, i, rc, <<>>, <<>>)
     IN  IF AmendContinues(patches[i])
         THEN \E outcome \in {"ok", "am --continue", "user.name", "user.email",
                              "add", "commit"} :
                IF outcome = "am --continue"
                THEN /\ issued' = Append(issued, amContinue("fail"))
                     /\ Fail("am --continue")
                     /\ UNCHANGED <<history, todo>>
                ELSE IF outcome = "user.name"
                THEN /\ issued' = issued \o
                          << amContinue("ok"), config("user.name", "fail") >>
                     /\ history' = GitAm(history, "am --continue", patches[i])
                     /\ Fail("config")
                     /\ UNCHANGED todo
                ELSE IF outcome = "user.email"
                THEN /\ issued' = issued \o
                          << amContinue("ok"), config("user.name", "ok"),
                             config("user.email", "fail") >>
                     /\ history' = GitAm(history, "am --continue", patches[i])
                     /\ Fail("config")
                     /\ UNCHANGED todo
                ELSE commitTask(i, AmendExtraArgs, Defined(coAuthor), outcome,
                                issued \o << amContinue("ok"), config("user.name", "ok"),
                                             config("user.email", "ok") >>,
                                GitAm(history, "am --continue", patches[i]))
         ELSE \E outcome \in {"ok", "add", "commit"} :
                commitTask(i, AmendExtraArgs, Undefined, outcome, issued, history)
  /\ UNCHANGED <<options, wantSquash, gen, patches, prompt, currentVersion,
                 versionH, commonGypi>>

\* ------------------------------------------------------ specification
Next ==
  \/ CheckOptions
  \/ CheckOptionsAsk
  \/ Confirm
  \/ GetCurrentV8Version
  \/ GeneratePatches
  \/ RevParseSettled
  \/ FetchSettled
  \/ ApplyPatches
  \/ ApplyAndCommitPatches
  \/ CherryPickV8Commits
  \/ ApplyPatchTask
  \/ CherryPickV8CommitTask
  \/ ApplyPatchStep
  \/ PromptInput
  \/ PromptValidate
  \/ IncrementV8Version
  \/ IncrementEmbedderVersion
  \/ CommitSquashedBackport
  \/ CommitPatch
  \/ AmendHEAD
  \/ Finish

Spec == Init /\ [][Next]_vars

\* The runner goes on to the next task whenever there is one, every
\* command and file operation ends, and the operator answers every prompt.
LiveSpec == Init /\ [][Next]_vars /\ WF_vars(Next)

\* ------------------------------------------------- runs that sign
\* The longest list of requested commits of a run that signs.
MaxSignedShas == 2

\* The signing arguments the caller sets ctx.gpgSign to.
SigningArgs == <<"-S">>

SignedOptionSets ==
  { [o EXCEPT !.gpgSign = SigningArgs] :
      o \in { x \in OptionSets : Len(x.sha) <= MaxSignedShas } }

\* A run whose ctx.gpgSign holds the signing arguments.
SignedInit ==
  /\ options \in SignedOptionSets
  /\ wantSquash = "unasked"
  /\ pc = "checkOptions"
  /\ todo = <<>>
  /\ gen = NoGen
  /\ patches = <<>>
  /\ prompt = NoPrompt
  /\ currentVersion = [set |-> FALSE, patch |-> 0]
  /\ \E f \in NodeTrees : versionH = f[1] /\ commonGypi = f[2]
  /\ issued = <<>>
  /\ history = <<>>
  /\ failedAt = ""

SignedSpec == SignedInit /\ [][Next]_vars

\* --------------------------------------- the embedder bump on its own
\* The largest embedder number of the small files.
MaxEmbedder == 20

\* common.gypi around its embedder string: a plain file, and one with a
\* look-alike line before the string and one after it.
GypiTemplates == {
  [before |-> <<"{"," ","'","v","a","r","i","a","b","l","e","s","'",":"," ","{","\n"," "," "," "," ">>,
   after |-> <<",","\n"," "," ","}",",","\n","}","\n">>],
  [before |-> <<"#"," ","'","v","8","_","e","m","b","e","d","d","e","r","_","s","t","r","i","n","g","'",":"," ","'","-","n","o","d","e",".","x","'","\n">>,
   after |-> <<",","\n","'","v","8","_","e","n","a","b","l","e","_","i","1","8","n","'",":"," ","'","-","n","o","d","e",".","7","'",",","\n">>] }

EmbedderFile(t, digits) ==
  t.before \o embedderLit \o digits \o embedderClose \o t.after

\* The numbers the files carry: 0..MaxEmbedder, 99, one written with
\* leading zeros, and the integers around 2^53.
EmbedderDigits ==
  { NumberToString(n) : n \in 0..MaxEmbedder } \cup
  { <<"9","9">>, <<"0","0","7">>,
    DecimalPred(DecimalPred(TwoTo53)), DecimalPred(TwoTo53), TwoTo53,
    DecimalSucc(TwoTo53), DecimalSucc(DecimalSucc(TwoTo53)) }

\* v8-version.h whose patch-level line the pattern does not match: the
\* number follows a tab.
VersionHNoMatch ==
  <<"#","d","e","f","i","n","e"," ","V","8","_","B","U","I","L","D","_","N","U","M","B","E","R"," ","4","\n","#","d","e","f","i","n","e"," ","V","8","_","P","A","T","C","H","_","L","E","V","E","L","\t","9","\n">>

\* The files a bump may find: v8-version.h with and without a patch level,
\* common.gypi with each of the numbers and without an embedder string.
BumpTrees ==
  { <<h, CommonGypiNode5>> : h \in {VersionHLevel9, VersionHLevel12, VersionHNoMatch} }
  \cup
  { <<VersionHLevel9, g>> :
      g \in { EmbedderFile(t, d) : t \in GypiTemplates, d \in EmbedderDigits }
            \cup {CommonGypiNoMatch} }

\* The commit step that follows the bump in the strategy of o, for patch 1.
CommitTaskOf(o) ==
  IF o.squash THEN Task("commitSquashedBackport", 0, "")
  ELSE IF o.preserveOriginalAuthor THEN Task("amendHEAD", 1, "")
  ELSE Task("commitPatch", 1, "")

\* A run of one commit whose patch has just applied cleanly: the bump and
\* the commit step are still to run, on any of the files. The patch
\* counter is the one read at the start of the run.
BumpInit ==
  /\ options \in { o \in OptionSets : Len(o.sha) = 1 /\ o.bump }
  /\ wantSquash = "unasked"
  /\ pc = "running"
  /\ todo = BumpTasks(options) \o <<CommitTaskOf(options)>>
  /\ gen = NoGen
  /\ patches = << PatchRecord(trim(RevParseStdout(options.sha[1])),
                              << FormatPatchStdout(trim(RevParseStdout(options.sha[1]))),
                                 LogStdout(trim(RevParseStdout(options.sha[1]))) >>) >>
  /\ prompt = NoPrompt
  /\ \E f \in BumpTrees :
       /\ versionH = f[1]
       /\ commonGypi = f[2]
       /\ (options.nodeMajorVersion < 9) = (f[2] = CommonGypiNode5)
  /\ currentVersion = [set |-> TRUE, patch |-> IF versionH = VersionHLevel12 THEN 12 ELSE 9]
  /\ issued = << NodeCommand(IF CommitTaskOf(options).t = "amendHEAD" THEN "am" ELSE "apply",
                             ApplyArgs, 1, "ok") >>
  /\ history = IF CommitTaskOf(options).t = "amendHEAD"
               THEN GitAm(<<>>, "am", patches[1])
               ELSE <<>>
  /\ failedAt = ""

BumpNext ==
  \/ IncrementV8Version
  \/ IncrementEmbedderVersion
  \/ CommitSquashedBackport
  \/ CommitPatch
  \/ AmendHEAD
  \/ Finish

BumpSpec == BumpInit /\ [][BumpNext]_vars

\* ------------------------------------------------------------- claims
Strategy ==
  IF options.squash THEN "squash"
  ELSE IF options.preserveOriginalAuthor THEN "preserve-author"
  ELSE "patch-then-commit"

\* The upstream commit the i-th requested reference names.
RequestedCommit(i) == UpstreamCommits[CommitOfRef(options.sha[i])]

Contains(s, lit) == \E k \in 1..Len(s) : IsPrefixAt(lit, s, k)

\* The errors the run may stop with by design: an upstream query, a
\* version file or a git command of the node repository failed.
FatalErrors == {"getCurrentV8Version", "rev-parse", "format-patch", "log",
                "readFile", "writeFile", "TypeError: embedderRegex.exec",
                "add", "commit", "am --continue", "config"}

RunEnded == pc \in {"done", "failed"}

\* C1: a run over N >= 1 commits that ends without a fatal error has added
\* exactly 1 commit under squash and exactly N commits, the i-th one that
\* of the i-th patch, under preserve-author and under patch-then-commit,
\* whichever patches conflicted.
C1_CommitCount ==
  (RunEnded /\ failedAt \notin FatalErrors) =>
     /\ pc = "done"
     /\ IF options.squash
        THEN Len(history) = 1
        ELSE /\ Len(history) = NumShas
             /\ \A i \in 1..NumShas : Contains(history[i].body, RequestedCommit(i).sha)

StrategyTasks == {"applyPatches", "cherryPickV8Commits", "applyAndCommitPatches"}

IsAmend(e) == e.cmd = "commit" /\ HasArg(e.args, "--amend")

\* C2: doBackport plans exactly one of the three strategies, squash when
\* squash is set even if preserveOriginalAuthor is set too; a run with
\* squash set issues no am, no am --continue and no commit --amend.
C2_SquashWins ==
  LET plan == doBackport(options)
      chosen == { k \in 1..Len(plan) : plan[k].t \in StrategyTasks }
  IN  /\ Cardinality(chosen) = 1
      /\ \A k \in chosen :
           plan[k].t = (IF options.squash THEN "applyPatches"
                        ELSE IF options.preserveOriginalAuthor THEN "cherryPickV8Commits"
                        ELSE "applyAndCommitPatches")
      /\ options.squash =>
           \A k \in 1..Len(issued) : issued[k].cmd # "am" /\ ~IsAmend(issued[k])

C2_Witness ==
  /\ options.squash /\ options.preserveOriginalAuthor
  /\ NumShas >= 2
  /\ pc = "done"
  /\ Len(history) = 1

\* C3: once the operator has declined the squash confirmation nothing is
\* issued (no rev-parse, format-patch or log, no command, file operation
\* or prompt of the node repository), no commit is added and the version
\* files are as they were.
C3_DeclineAborts ==
  wantSquash = "no" =>
     /\ pc = "aborted"
     /\ issued = <<>>
     /\ history = <<>>
     /\ patches = <<>>
     /\ ~currentVersion.set
     /\ <<versionH, commonGypi>> \in NodeTrees

C3_Witness ==
  /\ wantSquash = "no"
  /\ pc = "aborted"
  /\ options.squash /\ NumShas > 1

ExpectedRecord(i) ==
  [sha |-> RequestedCommit(i).sha, data |-> RequestedCommit(i).data,
   message |-> RequestedCommit(i).message, hadConflicts |-> FALSE]

\* C4: whatever the order in which rev-parse, format-patch and log end,
\* every record that has settled sits at the position of its reference,
\* and the i-th record of ctx.patches carries the full SHA, the diff and
\* the message of the i-th requested reference.
C4_OrderPreserved ==
  /\ gen.stage = "fetch" =>
       \A i \in 1..NumShas :
          /\ gen.fullShas[i] = RequestedCommit(i).sha
          /\ (\A k \in {1, 2} : <<i, k>> \notin gen.fetchPending)
                => gen.records[i] = ExpectedRecord(i)
  /\ patches # <<>> =>
       /\ Len(patches) = NumShas
       /\ \A i \in 1..NumShas :
            [patches[i] EXCEPT !.hadConflicts = FALSE] = ExpectedRecord(i)

\* The queries of the third reference have ended, those of the first
\* have not.
C4_Witness ==
  /\ gen.stage = "fetch"
  /\ NumShas >= 3
  /\ <<3, 1>> \notin gen.fetchPending /\ <<3, 2>> \notin gen.fetchPending
  /\ <<1, 1>> \in gen.fetchPending /\ <<1, 2>> \in gen.fetchPending
  /\ <<2, 2>> \notin gen.fetchPending

GenerationFailed == failedAt \in {"rev-parse", "format-patch", "log"}

\* C5: ctx.patches is never a partial list, and when a rev-parse, a
\* format-patch or a log failed, ctx.patches is not assigned and nothing
\* is applied, bumped or committed.
C5_NoPartialPatches ==
  /\ patches # <<>> => Len(patches) = NumShas
  /\ GenerationFailed =>
       /\ pc = "failed"
       /\ patches = <<>>
       /\ history = <<>>
       /\ <<versionH, commonGypi>> \in NodeTrees
       /\ \A k \in 1..Len(issued) :
            /\ issued[k].repo \in {"v8", "fs"}
            /\ issued[k].cmd # "writeFile"

\* A log failed after the records of other references had settled.
C5_Witness ==
  /\ failedAt = "log"
  /\ pc = "failed"
  /\ Len(gen.records) >= 2
  /\ Len(gen.records) < NumShas
  /\ patches = <<>>

IsApply(e) == e.repo = "node" /\ e.cmd \in {"apply", "am"} /\ e.args = ApplyArgs

IsPromptFor(e, i) == e.repo = "prompt" /\ e.patch = i

ResolvedLower == <<"r","e","s","o","l","v","e","d">>

\* RESOLVED in any mix of upper and lower case.
IsResolvedAnyCase(v) ==
  /\ Len(v) = Len(Resolved)
  /\ \A k \in 1..Len(v) : v[k] \in {Resolved[k], ResolvedLower[k]}

C6_State ==
  /\ \A k \in 1..Len(issued) :
       IsApply(issued[k]) =>
          IF issued[k].rc = "ok"
          THEN /\ ~patches[issued[k].patch].hadConflicts
               /\ \A j \in 1..Len(issued) : ~IsPromptFor(issued[j], issued[k].patch)
          ELSE /\ patches[issued[k].patch].hadConflicts
               /\ k < Len(issued)
               /\ IsPromptFor(issued[k + 1], issued[k].patch)
  /\ \A i \in 1..Len(patches) :
       patches[i].hadConflicts =>
          \E k \in 1..Len(issued) :
             IsApply(issued[k]) /\ issued[k].patch = i /\ issued[k].rc = "fail"
  /\ \A k \in 1..Len(issued) :
       (issued[k].repo = "prompt" /\ issued[k].rc = "pending") =>
          /\ k = Len(issued)
          /\ pc = "prompt"
          /\ prompt.patch = issued[k].patch
  /\ (pc = "prompt") = (prompt.patch # 0)

C6_Step ==
  pc = "prompt" =>
     /\ todo' = todo /\ history' = history /\ patches' = patches
     /\ versionH' = versionH /\ commonGypi' = commonGypi
     /\ currentVersion' = currentVersion
     /\ Len(issued') = Len(issued)
     /\ pc' \in {"prompt", "running"}
     /\ pc' = "running" => (prompt.typed /\ IsResolvedAnyCase(prompt.value))
     /\ (prompt.typed /\ pc' = "prompt") =>
           /\ ~IsResolvedAnyCase(prompt.value)
           /\ prompt'.rejected = prompt.rejected + 1
           /\ issued' = issued

\* C6: for apply and for am alike, a patch whose apply succeeded keeps
\* hadConflicts false and gets no prompt; a patch whose apply failed has
\* hadConflicts true and its prompt is the next thing issued; while the
\* prompt is shown nothing else is issued, run or changed; the prompt
\* rejects every input that is not RESOLVED in some mix of cases and ends
\* only on one that is.
C6_PromptBlocks == []C6_State /\ [][C6_Step]_vars

\* The second patch conflicted, the first did not, and the prompt has
\* rejected an input.
C6_Witness ==
  /\ pc = "prompt"
  /\ prompt.patch = 2
  /\ prompt.rejected >= 1
  /\ prompt.typed /\ prompt.value = ResolvedLower
  /\ ~patches[1].hadConflicts /\ patches[2].hadConflicts

\* The steps of the run in the node repository: what is issued after the
\* upstream queries.
IsStep(k) ==
  /\ issued[k].repo # "v8"
  /\ \E j \in 1..(k - 1) : issued[j].repo = "v8"

Rank(e) ==
  IF IsApply(e) THEN 1
  ELSE IF e.repo = "prompt" THEN 2
  ELSE IF e.cmd = "readFile" THEN 3
  ELSE IF e.cmd = "writeFile" THEN 4
  ELSE IF e.cmd = "add" /\ e.args = <<CommonGypiPath>> THEN 5
  ELSE IF e.cmd = "am" THEN 6
  ELSE IF e.repo = "config" /\ e.args = <<"user.name">> THEN 7
  ELSE IF e.repo = "config" THEN 8
  ELSE IF e.cmd = "add" THEN 9
  ELSE 10

\* The patch a step belongs to: its own, or that of the last step before
\* it that names one (a bump names none).
PatchOfStep(k) ==
  LET named == { j \in 1..k : IsStep(j) /\ issued[j].patch # 0 }
  IN  IF named = {} THEN 0
      ELSE issued[CHOOSE j \in named : \A x \in named : x <= j].patch

\* Per patch: patch first, then the step within the patch. Squash: the
\* applies with their prompts, then the bump, then the commit.
StepKey(k) ==
  IF options.squash
  THEN << IF Rank(issued[k]) <= 2 THEN 1 ELSE IF Rank(issued[k]) <= 5 THEN 2 ELSE 3,
          issued[k].patch, Rank(issued[k]) >>
  ELSE << PatchOfStep(k), Rank(issued[k]), 0 >>

LexLess(a, b) ==
  \/ a[1] < b[1]
  \/ a[1] = b[1] /\ a[2] < b[2]
  \/ a[1] = b[1] /\ a[2] = b[2] /\ a[3] < b[3]

CountIssued(cmd, i, rc) ==
  Cardinality({ k \in 1..Len(issued) :
                  issued[k].cmd = cmd /\ issued[k].patch = i /\ issued[k].rc = rc })

CountApplied(i) ==
  Cardinality({ k \in 1..Len(issued) : IsApply(issued[k]) /\ issued[k].patch = i })

\* C7: the steps of a run are issued one after another in the order of
\* the plan, none twice: per patch apply, prompt, bump, commit or amend,
\* patch i + 1 starting only after the commit of patch i succeeded; in
\* squash every apply (with its prompt) in input order, then the bump,
\* then the commit. A run that is done has applied and committed every
\* patch once (squash: committed once) and bumped once per commit if bump
\* is not false.
C7_Sequential ==
  /\ \A k \in 1..(Len(issued) - 1) :
       IsStep(k) => (IsStep(k + 1) /\ LexLess(StepKey(k), StepKey(k + 1)))
  /\ ~options.squash =>
       \A k \in 1..Len(issued) :
          (IsApply(issued[k]) /\ issued[k].patch > 1) =>
             \E j \in 1..(k - 1) :
                /\ issued[j].cmd = "commit" /\ issued[j].rc = "ok"
                /\ issued[j].patch = issued[k].patch - 1
  /\ pc = "done" =>
       /\ \A i \in 1..NumShas : CountApplied(i) = 1
       /\ IF options.squash
          THEN CountIssued("commit", 0, "ok") = 1
          ELSE \A i \in 1..NumShas : CountIssued("commit", i, "ok") = 1
       /\ CountIssued("writeFile", 0, "ok") =
            (IF options.bump THEN (IF options.squash THEN 1 ELSE NumShas) ELSE 0)

C7_Witness ==
  /\ pc = "done"
  /\ Strategy = "preserve-author"
  /\ options.bump
  /\ NumShas >= 3
  /\ patches[1].hadConflicts /\ ~patches[2].hadConflicts

\* The patches a commit covers.
Covered(e) == IF options.squash THEN 1..Len(patches) ELSE {e.patch}

TitleHasAction(title, word) == IsPrefixAt(DepsV8 \o word \o <<" ">>, title, 1)

\* C8: the title of a commit says backport if a patch the commit covers
\* (squash: any patch of the run; otherwise the patch committed) had
\* conflicts, and cherry-pick if none had.
C8_ActionWord ==
  /\ \A k \in 1..Len(issued) :
       issued[k].cmd = "commit" =>
          IF \E i \in Covered(issued[k]) : patches[i].hadConflicts
          THEN TitleHasAction(issued[k].title, BackportWord)
          ELSE TitleHasAction(issued[k].title, CherryPickWord)
  /\ \A k \in 1..Len(history) :
       history[k].how \in {"commit", "amend"} =>
          IF \E i \in (IF options.squash THEN 1..Len(patches) ELSE {k}) :
                patches[i].hadConflicts
          THEN TitleHasAction(history[k].title, BackportWord)
          ELSE TitleHasAction(history[k].title, CherryPickWord)

\* A squash of three or more patches of which only the second conflicted.
C8_Witness ==
  /\ pc = "done"
  /\ options.squash
  /\ NumShas >= 3
  /\ patches[2].hadConflicts
  /\ \A i \in 1..NumShas : i # 2 => ~patches[i].hadConflicts
  /\ TitleHasAction(history[1].title, BackportWord)

Short(i) == SubSeq(RequestedCommit(i).sha, 1, 12)

\* The title after the action word, for the patches a commit covers.
TitleRest(e) ==
  IF ~options.squash THEN Short(e.patch)
  ELSE IF NumShas = 1 THEN Short(1)
  ELSE IF NumShas = 2 THEN Short(1) \o <<" ","a","n","d"," ">> \o Short(2)
  ELSE IF NumShas = 3
       THEN Short(1) \o <<","," ">> \o Short(2) \o <<" ","a","n","d"," ">> \o Short(3)
  ELSE <<DigitChars[NumShas + 1]>> \o <<" ","c","o","m","m","i","t","s">>

\* C9: the title of every commit is 'deps: V8: <action> ' followed by the
\* short SHA for one patch, '<short1> and <short2>' for two,
\* '<short1>, <short2> and <short3>' for three, in input order, and
\* '<N> commits' for N > 3 patches.
C9_TitleGrammar ==
  \A k \in 1..Len(issued) :
     issued[k].cmd = "commit" =>
        \E word \in {BackportWord, CherryPickWord} :
           issued[k].title = DepsV8 \o word \o <<" ">> \o TitleRest(issued[k])

C9_Witness ==
  /\ pc = "done"
  /\ options.squash
  /\ NumShas = 4
  /\ history[1].title = DepsV8 \o CherryPickWord \o <<" ","4"," ","c","o","m","m","i","t","s">>

\* The patch level v8-version.h states: the digits that follow the first
\* 'V8_PATCH_LEVEL ' that digits follow.
PatchLevelAt(text, i) ==
  /\ IsPrefixAt(PatchLevelLit, text, i)
  /\ i + Len(PatchLevelLit) <= Len(text)
  /\ text[i + Len(PatchLevelLit)] \in Digit

FirstPatchLevel(text) ==
  CHOOSE i \in 1..Len(text) :
     PatchLevelAt(text, i) /\ \A j \in 1..(i - 1) : ~PatchLevelAt(text, j)

\* text reads 'V8_PATCH_LEVEL n' at its patch-level line.
ReadsPatchLevel(text, n) ==
  /\ \E i \in 1..Len(text) : PatchLevelAt(text, i)
  /\ LET from == FirstPatchLevel(text) + Len(PatchLevelLit)
     IN  \E to \in from..Len(text) :
            /\ \A k \in from..to : text[k] \in Digit
            /\ to = Len(text) \/ text[to + 1] \notin Digit
            /\ parseInt(SubSeq(text, from, to)) = n

\* after is before with the number of its patch-level line replaced by
\* the digits of n, and nothing else changed.
OnlyPatchLevelChanged(before, after, n) ==
  LET from == FirstPatchLevel(before) + Len(PatchLevelLit)
      to == DigitsEnd(before, from)
  IN  after = SubSeq(before, 1, from - 1) \o NumberToString(n)
                 \o SubSeq(before, to + 1, Len(before))

FailedInBump == pc = "failed" /\ failedAt \in {"readFile", "writeFile"}

BumpsWritten ==
  Cardinality({ k \in 1..Len(issued) :
                  /\ issued[k].cmd = "writeFile" /\ issued[k].rc = "ok"
                  /\ issued[k].args = <<VersionHPath>> })

C10_State ==
  (currentVersion.set /\ ~FailedInBump) =>
     /\ ReadsPatchLevel(versionH, currentVersion.patch)
     /\ \E tree \in NodeTrees :
          ReadsPatchLevel(tree[1], currentVersion.patch - BumpsWritten)

C10_Step ==
  (Running("incrementV8Version") /\ pc' # "failed") =>
     \E n \in 0..(currentVersion.patch + 1) :
        /\ ReadsPatchLevel(versionH, n)
        /\ ReadsPatchLevel(versionH', n + 1)
        /\ OnlyPatchLevelChanged(versionH, versionH', n + 1)
        /\ currentVersion'.patch = n + 1

\* C10: a patch-level bump of a file that reads 'V8_PATCH_LEVEL n' leaves
\* it reading 'V8_PATCH_LEVEL n+1' with nothing else changed; the file is
\* written at every bump, so that after k bumps it reads n + k, which is
\* the patch counter in memory.
C10_PatchLevelBump == []C10_State /\ [][C10_Step]_vars

\* Two bumps from patch level 9: the file and the counter are at 11.
C10_Witness ==
  /\ pc = "done"
  /\ BumpsWritten = 2
  /\ currentVersion.patch = 11
  /\ ReadsPatchLevel(versionH, 11)
  /\ Len(versionH) = Len(VersionHLevel9) + 1

\* The embedder bump wrote the file: its task ended, or failed at git add.
EmbedderBumpWrote ==
  /\ Running("incrementEmbedderVersion")
  /\ todo' # todo \/ failedAt' = "add"

SafeEmbedderDigits == { d \in EmbedderDigits : DecimalLess(StripZeros(d), TwoTo53) }

\* The file carried one of the numbers of ds, and now carries the next
\* integer in decimal, everything around the number being as it was.
EmbedderBumpedBy(ds) ==
  EmbedderBumpWrote =>
     \A t \in GypiTemplates, d \in ds :
        commonGypi = EmbedderFile(t, d) =>
           commonGypi' = EmbedderFile(t, DecimalSucc(StripZeros(d)))

\* C11, as stated: for every non-negative integer N, a file that contains
\* 'v8_embedder_string': '-node.N' contains 'v8_embedder_string':
\* '-node.N+1' after one embedder bump, the rest of the file unchanged.
C11_EmbedderBumpEveryN == [][EmbedderBumpedBy(EmbedderDigits)]_vars

\* C11, amended: the same for every non-negative integer N below 2^53,
\* the range in which N and N + 1 are exact Numbers.
C11_EmbedderBump == [][EmbedderBumpedBy(SafeEmbedderDigits)]_vars

\* A bump from 99 to 100 in the file with the look-alike lines.
C11_Witness ==
  /\ pc = "done"
  /\ \E t \in GypiTemplates :
       /\ Len(t.before) > 30
       /\ commonGypi = EmbedderFile(t, <<"1","0","0">>)
  /\ Len(history) = 1

HasPatchLevel(text) == \E i \in 1..Len(text) : PatchLevelAt(text, i)

\* text holds 'v8_embedder_string': '-node.<digits>'.
HasEmbedderString(text) ==
  \E i \in 1..Len(text), e \in 1..Len(text) :
     /\ IsPrefixAt(embedderLit, text, i)
     /\ e >= i + Len(embedderLit)
     /\ \A k \in (i + Len(embedderLit))..e : text[k] \in Digit
     /\ IsPrefixAt(embedderClose, text, e + 1)

\* The file of the bump the major version selects lacks the pattern.
PatternAbsent ==
  IF options.nodeMajorVersion < 9 THEN ~HasPatchLevel(versionH)
  ELSE ~HasEmbedderString(commonGypi)

BumpPath == IF options.nodeMajorVersion < 9 THEN VersionHPath ELSE CommonGypiPath

\* The bump has read its file.
BumpHasRead ==
  \E k \in 1..Len(issued) :
     /\ issued[k].cmd = "readFile" /\ issued[k].rc = "ok"
     /\ issued[k].args = <<BumpPath>>

\* C12: a bump, patch-level or embedder, whose file lacks the pattern
\* fails: the run has stopped at the bump, the file has not been written
\* and no commit or amend has followed.
C12_AbsentPatternFatal ==
  (PatternAbsent /\ BumpHasRead) =>
     /\ pc = "failed"
     /\ \A k \in 1..Len(issued) : issued[k].cmd \notin {"writeFile", "commit"}

\* The embedder bump alone does stop the run when its pattern is absent.
EmbedderAbsentPatternFatal ==
  (options.nodeMajorVersion >= 9 /\ PatternAbsent /\ BumpHasRead) =>
     /\ pc = "failed"
     /\ failedAt = "TypeError: embedderRegex.exec"
     /\ \A k \in 1..Len(issued) : issued[k].cmd \notin {"writeFile", "commit"}

\* The body of a commit message as the body rule words it.
BodyHeader == <<"O","r","i","g","i","n","a","l"," ","c","o","m","m","i","t"," ","m","e","s","s","a","g","e",":","\n","\n">>

BodyRefs == <<"R","e","f","s",":"," ","h","t","t","p","s",":","/","/","g","i","t","h","u","b",".","c","o","m","/","v","8","/","v","8","/","c","o","m","m","i","t","/">>

\* The trailer built from the configured user.name and user.email.
CoAuthorTrailer == <<"\n","C","o","-","a","u","t","h","o","r","e","d","-","b","y",":"," ","J","a","n","e"," ","D","o","e"," ","<","j","a","n","e","@","e","x","a","m","p","l","e",".","o","r","g",">">>

NewlinesBefore(m, k) == Cardinality({ j \in 1..(k - 1) : m[j] = "\n" })

\* out is m with four spaces put after every newline, and nothing else.
IndentedAs(m, out) ==
  /\ Len(out) = Len(m) + 4 * NewlinesBefore(m, Len(m) + 1)
  /\ \A k \in 1..Len(m) :
       LET p == k + 4 * NewlinesBefore(m, k)
       IN  /\ out[p] = m[k]
           /\ m[k] = "\n" => \A j \in 1..4 : out[p + j] = " "

IndentedLen(m) == Len(m) + 4 * NewlinesBefore(m, Len(m) + 1)

\* body is the header, the message of commit c indented, a blank line, the
\* reference line with the full SHA of c, and the trailer.
BodyMatches(body, c, trailer) ==
  LET a == Len(BodyHeader) + 4
      n == IndentedLen(c.message)
  IN  /\ Len(body) >= a + n
      /\ IndentedAs(c.message, SubSeq(body, a + 1, a + n))
      /\ body = BodyHeader \o <<" "," "," "," ">> \o SubSeq(body, a + 1, a + n)
                  \o <<"\n","\n">> \o BodyRefs \o c.sha \o trailer

ActionLine(i) ==
  (IF patches[i].hadConflicts THEN <<"B","a","c","k","p","o","r","t">>
   ELSE <<"C","h","e","r","r","y","-","p","i","c","k">>)
  \o <<" ">> \o Short(i) \o <<".","\n">>

\* body is, for the patches i..N in order, the action line of the patch,
\* its body and a blank line.
RECURSIVE SquashedMatches(_, _)
SquashedMatches(body, i) ==
  IF i > NumShas THEN body = <<>>
  ELSE LET c == RequestedCommit(i)
           from == Len(ActionLine(i))
           to == from + Len(BodyHeader) + 4 + IndentedLen(c.message) + 2
                      + Len(BodyRefs) + Len(c.sha)
       IN  /\ Len(body) >= to + 2
           /\ SubSeq(body, 1, from) = ActionLine(i)
           /\ BodyMatches(SubSeq(body, from + 1, to), c, <<>>)
           /\ SubSeq(body, to + 1, to + 2) = <<"\n","\n">>
           /\ SquashedMatches(SubSeq(body, to + 3, Len(body)), i + 1)

\* C13: the body formatMessageBody returns is the fixed header, then the
\* original message with four spaces before its first line and after each
\* of its newlines, then a blank line and 'Refs: https://github.com/v8/v8/
\* commit/<sha>' with the full SHA of the patch, then the trailer text if
\* there is one; a squash of several patches puts the action line of each
\* patch before its body. Stated of the body of every commit issued.
C13_MessageBody ==
  \A k \in 1..Len(issued) :
     issued[k].cmd = "commit" =>
        IF options.squash
        THEN IF NumShas = 1
             THEN BodyMatches(issued[k].body, RequestedCommit(1), <<>>)
             ELSE SquashedMatches(issued[k].body, 1)
        ELSE \E trailer \in {<<>>, CoAuthorTrailer} :
                BodyMatches(issued[k].body, RequestedCommit(issued[k].patch), trailer)

\* The third commit, whose message has four newlines, conflicted and was
\* amended with the co-author trailer.
C13_Witness ==
  /\ pc = "done"
  /\ Strategy = "preserve-author"
  /\ NumShas >= 3
  /\ patches[3].hadConflicts
  /\ NewlinesBefore(patches[3].message, Len(patches[3].message) + 1) = 4
  /\ BodyMatches(history[3].body, RequestedCommit(3), CoAuthorTrailer)

\* The failures of C14: a git command of the node repository other than
\* the apply, or a read or write of a version file.
StepFailures == {"add", "commit", "am --continue", "config", "readFile", "writeFile"}

IsPrefixOf(a, b) == Len(a) <= Len(b) /\ SubSeq(b, 1, Len(a)) = a

C14_State ==
  /\ \A k \in 1..Len(issued) :
       (issued[k].rc = "fail" /\ ~IsApply(issued[k])) =>
          /\ k = Len(issued)
          /\ pc = "failed"
          /\ failedAt \in StepFailures \cup {"getCurrentV8Version"}
  /\ (pc = "failed" /\ failedAt \in StepFailures) =>
       /\ issued # <<>>
       /\ issued[Len(issued)].rc = "fail"

C14_Step ==
  /\ pc # "failed"
  /\ pc' = "failed" => IsPrefixOf(history, history')
  /\ Len(history') >= Len(history)
  /\ \A j \in 1..(Len(history) - 1) : history'[j] = history[j]

\* C14: when an add, a commit, an amend, an am --continue, a git config
\* or a read or write of a version file fails, the failed step is the last
\* thing the run does: nothing is issued or changed afterwards, for this
\* patch or a later one; the commits added before are all still there, as
\* they were, and no step ever removes a commit.
C14_FailureStops == []C14_State /\ [][C14_Step]_vars

\* git config failed for the second of three patches: the commit of the
\* first and the commit am --continue made of the second stay, the third
\* patch is never applied.
C14_Witness ==
  /\ pc = "failed"
  /\ failedAt = "config"
  /\ NumShas >= 3
  /\ Len(history) = 2
  /\ history[1].how = "amend"
  /\ todo # <<>>
  /\ \A k \in 1..Len(issued) : issued[k].patch # 3 \/ issued[k].repo = "v8"

IsFs(e, cmd, path) == e.repo = "fs" /\ e.cmd = cmd /\ e.args = <<path>>

\* The successful writes of a version file among issued[from..to].
WritesBetween(path, from, to) ==
  { k \in from..to : IsFs(issued[k], "writeFile", path) /\ issued[k].rc = "ok" }

ApplyIndex(i) == CHOOSE k \in 1..Len(issued) : IsApply(issued[k]) /\ issued[k].patch = i

CommitIndex(i) ==
  CHOOSE k \in 1..Len(issued) :
     issued[k].cmd = "commit" /\ issued[k].rc = "ok" /\ issued[k].patch = i

\* The file the major version selects, and the other one.
BumpedPath == IF options.nodeMajorVersion < 9 THEN VersionHPath ELSE CommonGypiPath

OtherPath == IF options.nodeMajorVersion < 9 THEN CommonGypiPath ELSE VersionHPath

\* A run that is done has bumped once (squash: after the last apply and
\* before the commit) or once per patch (between the apply and the commit
\* or amend of that patch) if bump is not false, in the file the major
\* version selects and in no other.
BumpCounts ==
  pc = "done" =>
     LET each == IF options.bump THEN 1 ELSE 0
     IN  /\ WritesBetween(OtherPath, 1, Len(issued)) = {}
         /\ IF options.squash
            THEN /\ Cardinality(WritesBetween(BumpedPath, 1, Len(issued))) = each
                 /\ Cardinality(WritesBetween(BumpedPath, ApplyIndex(NumShas) + 1,
                                              CommitIndex(0) - 1)) = each
            ELSE /\ Cardinality(WritesBetween(BumpedPath, 1, Len(issued))) = each * NumShas
                 /\ \A i \in 1..NumShas :
                      Cardinality(WritesBetween(BumpedPath, ApplyIndex(i) + 1,
                                                CommitIndex(i) - 1)) = each

\* C15, as stated: the bump counts of a completed run, and with bump false
\* no read and no write of either version file at any time.
C15_BumpCountsNoRead ==
  /\ BumpCounts
  /\ ~options.bump => \A k \in 1..Len(issued) : issued[k].repo # "fs"

\* C15, amended: the bump counts of a completed run, and with bump false
\* no write of either version file and no read but the one of
\* v8-version.h by which the run starts (getCurrentV8Version).
C15_BumpCounts ==
  /\ BumpCounts
  /\ ~options.bump =>
       \A k \in 1..Len(issued) :
          issued[k].repo = "fs" => (k = 1 /\ IsFs(issued[k], "readFile", VersionHPath))

\* Three patches cherry-picked with a patch-level bump each.
C15_Witness ==
  /\ pc = "done"
  /\ Strategy = "preserve-author"
  /\ options.bump /\ options.nodeMajorVersion < 9
  /\ NumShas = 3
  /\ Cardinality(WritesBetween(VersionHPath, 1, Len(issued))) = 3
  /\ patches[2].hadConflicts

IsAmContinue(e) == e.repo = "node" /\ e.cmd = "am" /\ HasArg(e.args, "--continue")

IsConfig(e) == e.repo = "config"

\* The mailbox-apply of patch i failed.
AmFailed(i) ==
  \E k \in 1..Len(issued) :
     IsApply(issued[k]) /\ issued[k].cmd = "am" /\ issued[k].patch = i /\ issued[k].rc = "fail"

EndsWith(s, tail) ==
  Len(s) >= Len(tail) /\ SubSeq(s, Len(s) - Len(tail) + 1, Len(s)) = tail

CoAuthoredByWord == <<"C","o","-","a","u","t","h","o","r","e","d","-","b","y">>

\* C16: in preserve-author, the amend of a patch is preceded by an
\* am --continue of that patch, and its body ends with the Co-authored-by
\* trailer of the configured user.name and user.email, exactly when the am
\* of the patch failed; an am --continue comes after the prompt of its
\* patch was answered with an accepted input and before the amend; a
\* patch whose am succeeded gets no am --continue, no git config and no
\* Co-authored-by anywhere in its body.
C16_CoAuthorIffConflict ==
  Strategy = "preserve-author" =>
     /\ \A k \in 1..Len(issued) :
          issued[k].cmd = "commit" =>
             LET i == issued[k].patch
                 continued == \E j \in 1..(k - 1) :
                                 IsAmContinue(issued[j]) /\ issued[j].patch = i
                                    /\ issued[j].rc = "ok"
             IN  /\ IsAmend(issued[k])
                 /\ patches[i].hadConflicts = AmFailed(i)
                 /\ continued = AmFailed(i)
                 /\ EndsWith(issued[k].body, CoAuthorTrailer) = AmFailed(i)
                 /\ Contains(issued[k].body, CoAuthoredByWord) = AmFailed(i)
     /\ \A j \in 1..Len(issued) :
          (IsAmContinue(issued[j]) \/ IsConfig(issued[j])) =>
             LET i == issued[j].patch
             IN  /\ AmFailed(i)
                 /\ \E p \in 1..(j - 1) : IsPromptFor(issued[p], i) /\ issued[p].rc = "ok"
                 /\ \A c \in 1..(j - 1) : ~(issued[c].cmd = "commit" /\ issued[c].patch = i)
     /\ pc = "done" =>
          \A i \in 1..NumShas :
             EndsWith(history[i].body, CoAuthorTrailer) = patches[i].hadConflicts

\* The first patch conflicted and was continued and amended with the
\* trailer; the second applied cleanly and was amended without.
C16_Witness ==
  /\ pc = "done"
  /\ Strategy = "preserve-author"
  /\ NumShas >= 2
  /\ patches[1].hadConflicts /\ ~patches[2].hadConflicts
  /\ EndsWith(history[1].body, CoAuthorTrailer)
  /\ ~Contains(history[2].body, CoAuthoredByWord)
  /\ \E j \in 1..Len(issued) : IsAmContinue(issued[j]) /\ issued[j].patch = 1

\* Whether `git add <arg>` stages a change of the file at path.
Stages(arg, path) ==
  \/ arg = "deps/v8" /\ path = VersionHPath
  \/ arg = "common.gypi" /\ path = CommonGypiPath

IsAdd(e) == e.repo = "node" /\ e.cmd = "add" /\ e.rc = "ok" /\ Len(e.args) = 1

IsBumpWrite(e, path) == IsFs(e, "writeFile", path) /\ e.rc = "ok"

C17_State ==
  /\ \A c \in 1..Len(issued), w \in 1..Len(issued), path \in {VersionHPath, CommonGypiPath} :
       ( /\ w < c
         /\ issued[c].cmd = "commit"
         /\ IsBumpWrite(issued[w], path)
         /\ \A x \in (w + 1)..(c - 1) : issued[x].cmd # "commit" ) =>
          \E a \in (w + 1)..(c - 1) : IsAdd(issued[a]) /\ Stages(issued[a].args[1], path)
  /\ \A w \in 1..Len(issued) :
       IsBumpWrite(issued[w], CommonGypiPath) =>
          /\ w < Len(issued)
          /\ issued[w + 1].cmd = "add" /\ issued[w + 1].args = <<"common.gypi">>

C17_Step ==
  /\ Running("incrementV8Version") =>
       \A k \in (Len(issued) + 1)..Len(issued') : issued'[k].repo = "fs"
  /\ (Running("commitSquashedBackport") \/ Running("commitPatch") \/ Running("amendHEAD")) =>
       \A c \in (Len(issued) + 1)..Len(issued') :
          issued'[c].cmd = "commit" =>
             \E k \in (Len(issued) + 1)..(c - 1) :
                /\ issued'[k].cmd = "add" /\ issued'[k].rc = "ok"
                /\ issued'[k].args = <<"deps/v8">>

\* C17: between the write of a bump and the commit or amend that follows
\* it the written file is staged; the patch-level bump issues no git
\* command, it is the commit step (squash, commit, amend) that stages
\* deps/v8 before it commits, and the embedder bump stages common.gypi
\* right after its write, in each of the three strategies.
C17_BumpStaged == []C17_State /\ [][C17_Step]_vars

\* A squash of two commits with a patch-level bump: written, staged with
\* deps/v8 by the commit step, committed.
C17_Witness ==
  /\ pc = "done"
  /\ options.squash /\ options.bump /\ options.nodeMajorVersion < 9
  /\ NumShas = 2
  /\ \E w \in 1..Len(issued) :
       /\ IsBumpWrite(issued[w], VersionHPath)
       /\ IsAdd(issued[w + 1]) /\ issued[w + 1].args = <<"deps/v8">>
       /\ issued[w + 2].cmd = "commit" /\ issued[w + 2].rc = "ok"

CarriesSigning(e) == \A a \in 1..Len(gpgSign) : HasArg(e.args, gpgSign[a])

\* C18: in a run whose ctx.gpgSign holds signing arguments, every commit
\* and every am (the mailbox-apply and am --continue) is issued with
\* them, so that every commit a run that is done has added was made by a
\* command that carried them.
C18_SignedEverywhere ==
  gpgSign # <<>> =>
     \A k \in 1..Len(issued) :
        (issued[k].repo = "node" /\ issued[k].cmd \in {"commit", "am"}) =>
           CarriesSigning(issued[k])

\* What does hold: commitTask and am --continue carry the arguments.
SignedWhereSpliced ==
  gpgSign # <<>> =>
     \A k \in 1..Len(issued) :
        (IsAmContinue(issued[k]) \/ (issued[k].cmd = "commit" /\ issued[k].patch # 0)) =>
           CarriesSigning(issued[k])

\* The run stopped because an upstream query, a git command or a file
\* operation failed, or a version file was malformed.
ExternalFailure == pc = "failed" /\ failedAt \in FatalErrors

\* The run is done, every requested patch applied once and committed.
AllCommitted ==
  /\ pc = "done"
  /\ \A i \in 1..NumShas : CountApplied(i) = 1
  /\ IF options.squash
     THEN CountIssued("commit", 0, "ok") = 1 /\ Len(history) = 1
     ELSE /\ Len(history) = NumShas
          /\ \A i \in 1..NumShas : CountIssued("commit", i, "ok") = 1

\* An input the prompt does not accept changes nothing but the prompt,
\* which stays open.
C19_Reprompt ==
  (pc = "prompt" /\ prompt.typed /\ ~IsResolvedAnyCase(prompt.value)) =>
     /\ pc' = "prompt"
     /\ failedAt' = failedAt
     /\ todo' = todo /\ issued' = issued /\ history' = history
     /\ patches' = patches
     /\ prompt'.patch = prompt.patch

\* C19: every run that the operator does not decline at the squash
\* confirmation, in which every prompt is in the end answered with an
\* accepted input, comes to an end: with every requested patch applied and
\* committed, unless a command or a file operation failed; an input that
\* is not accepted neither fails the run nor advances it.
C19_Terminates ==
  /\ [][C19_Reprompt]_vars
  /\ <>(pc = "aborted" \/ ExternalFailure \/ AllCommitted)

====
